---- MODULE Spec2Model ----
(***************************************************************************)
(* Model of the ESG scoring engine (src/ibm_project/src/scoring.py):       *)
(* ESGScorer.score_environmental, score_social, score_governance and      *)
(* calculate_overall_score.                                                *)
(*                                                                         *)
(* Units.  Points are carried in thousandths (1.5 points = 1500), so that *)
(* round(score, 2) and round(percentage, 1) are real roundings.  A        *)
(* returned score is in hundredths of a point (5.0 = 500), a returned     *)
(* percentage in tenths of a percent (50.0 = 500).  Percentages, board    *)
(* sizes, violation counts and training hours are whole numbers;          *)
(* safety_incident_rate is in tenths (0.8 = 8).                            *)
(***************************************************************************)
EXTENDS Integers, Sequences, FiniteSets

VARIABLES
    weights,    \* ESGScorer.weights, in hundredths (0.40 = 40)
    op,         \* the method of the scorer that is called
    metrics,    \* its argument
    pc,         \* "call" on entry, then "return", or "raise" if an exception left it;
                \* "idle" between calls, "concurrent" while the callers' frames run,
                \* "loop" inside the while loop of chunk_text
    overall,    \* the local `overall` of calculate_overall_score, a float
    result,     \* the dict it returned, or the exception (empty until then)
    history,    \* the calls made so far on the scorer: (method, argument, outcome)
    frames,     \* the local variables of the call in progress (by caller when concurrent)
    COMPANY_DATA,    \* gradio_app2.COMPANY_DATA: file name -> metrics and score
    PROCESSED_FILES, \* gradio_app2.PROCESSED_FILES: a list of file names
    vectorstore,     \* RAGEngine.vectorstore of the app's rag_engine: None or a Chroma store
    processed_files  \* gradio_app1: the gr.State list of file names of each session

\* what a single call of a scorer method leaves alone
rag == <<vectorstore, processed_files>>

context == <<history, frames, COMPANY_DATA, PROCESSED_FILES, rag>>

vars == <<weights, op, metrics, pc, overall, result, context>>

----------------------------------------------------------------------------
(* Python values of the leaves of a metrics mapping. *)

None == [kind |-> "none", val |-> 0]
Num(n) == [kind |-> "num", val |-> n]
Bool(b) == [kind |-> "bool", val |-> IF b THEN 1 ELSE 0]
\* a dict with n entries (a structured quantity such as {'value': .., 'unit': ..})
Obj(n) == [kind |-> "obj", val |-> n]

\* bool(v): None, False, 0 and {} are falsy
Truthy(v) == v.kind # "none" /\ v.val # 0

\* a dict.get that reads a missing key as the number 0: rejected by
\* AbsentMetricIsSkipped
GetZeroDefault(m, k) == IF k \in DOMAIN m THEN m[k] ELSE Num(0)

\* dict.get(k): None when the key is missing
Get(m, k) == IF k \in DOMAIN m THEN m[k] ELSE None

\* a mapping without key k
Without(m, k) == [x \in DOMAIN m \ {k} |-> m[x]]

----------------------------------------------------------------------------
(* Rounding: Python's round() is round-half-to-even. *)

\* n/d rounded half-to-even, for n >= 0 and d > 0
RoundHalfEven(n, d) ==
    LET q == n \div d
        r == n % d
    IN  IF 2 * r > d \/ (2 * r = d /\ q % 2 = 1) THEN q + 1 ELSE q

\* (score, details) accumulated by the `score += ..; details.append(..)` blocks
NoAward == [score |-> 0, details |-> <<>>]
Award(pts, line) == [score |-> pts, details |-> <<line>>]
Plus(a, b) == [score |-> a.score + b.score, details |-> a.details \o b.details]

max_score == 10

\* ScoreResult without `min(score, max_score)`: rejected by ScoreWithinRange
ScoreResultUncapped(score, details, fallback) ==
    [score |-> RoundHalfEven(score, 10),
     max_score |-> max_score,
     percentage |-> RoundHalfEven(score, max_score),
     details |-> IF details # <<>> THEN details ELSE <<fallback>>]

\* the dict returned by a category scorer; score is in thousandths
ScoreResult(score, details, fallback) ==
    LET capped == IF score <= max_score * 1000 THEN score ELSE max_score * 1000
    IN  [score |-> RoundHalfEven(capped, 10),
         max_score |-> max_score,
         percentage |-> RoundHalfEven(capped, max_score),
         details |-> IF details # <<>> THEN details ELSE <<fallback>>]

----------------------------------------------------------------------------
(* score_environmental *)

EnvScope1(m) ==
    LET scope1 == Get(m, "scope_1_emissions")
    IN  IF Truthy(scope1) /\ scope1 # None
        THEN Award(1500, <<"[+] Reports Scope 1 emissions">>)
        ELSE NoAward

EnvScope2(m) ==
    LET scope2 == Get(m, "scope_2_emissions")
    IN  IF Truthy(scope2) /\ scope2 # None
        THEN Award(500, <<"[+] Reports Scope 2 emissions">>)
        ELSE NoAward

EnvScope3(m) ==
    IF Truthy(Get(m, "scope_3_emissions")) /\ Get(m, "scope_3_emissions") # None
    THEN Award(1000, <<"[+] Reports Scope 3 emissions (comprehensive)">>)
    ELSE NoAward

\* a renewable block whose top tier is worth 4.5: rejected by
\* EnvironmentalMaximumIs8
EnvRenewableRicher(m) ==
    LET renewable_pct == Get(m, "renewable_energy_percentage")
        v == renewable_pct.val
    IN  IF renewable_pct # None /\ v > 0
        THEN IF v >= 75 THEN Award(4500, <<"[+] Excellent renewable energy usage", v>>)
             ELSE IF v >= 50 THEN Award(2500, <<"[+] Good renewable energy usage", v>>)
             ELSE IF v >= 25 THEN Award(1500, <<"[o] Moderate renewable energy usage", v>>)
             ELSE Award(500, <<"[!] Low renewable energy usage", v>>)
        ELSE NoAward

EnvRenewable(m) ==
    LET renewable_pct == Get(m, "renewable_energy_percentage")
        v == renewable_pct.val
    IN  IF renewable_pct # None /\ v > 0
        THEN IF v >= 75 THEN Award(3000, <<"[+] Excellent renewable energy usage", v>>)
             ELSE IF v >= 50 THEN Award(2500, <<"[+] Good renewable energy usage", v>>)
             ELSE IF v >= 25 THEN Award(1500, <<"[o] Moderate renewable energy usage", v>>)
             ELSE Award(500, <<"[!] Low renewable energy usage", v>>)
        ELSE NoAward

\* a waste block with a fourth tier below 25: rejected by EnvironmentalAwards
EnvWasteLowTier(m) ==
    LET waste_pct == Get(m, "waste_recycled_percentage")
        v == waste_pct.val
    IN  IF waste_pct # None /\ v > 0
        THEN IF v >= 75 THEN Award(1000, <<"[+] High waste diversion rate", v>>)
             ELSE IF v >= 50 THEN Award(700, <<"[o] Moderate waste diversion", v>>)
             ELSE Award(400, <<"[!] Limited waste diversion", v>>)
        ELSE NoAward

EnvWaste(m) ==
    LET waste_pct == Get(m, "waste_recycled_percentage")
        v == waste_pct.val
    IN  IF waste_pct # None /\ v > 0
        THEN IF v >= 75 THEN Award(1000, <<"[+] High waste diversion rate", v>>)
             ELSE IF v >= 50 THEN Award(700, <<"[o] Moderate waste diversion", v>>)
             ELSE IF v >= 25 THEN Award(400, <<"[!] Limited waste diversion", v>>)
             ELSE NoAward
        ELSE NoAward

EnvWater(m) ==
    IF Truthy(Get(m, "water_usage")) /\ Get(m, "water_usage") # None
    THEN Award(500, <<"[+] Reports water usage metrics">>)
    ELSE NoAward

EnvEnergy(m) ==
    IF Truthy(Get(m, "energy_efficiency")) /\ Get(m, "energy_efficiency") # None
    THEN Award(500, <<"[+] Reports energy efficiency metrics">>)
    ELSE NoAward

EnvFallback == <<"[!] Limited environmental data available">>

score_environmental(m) ==
    LET acc == Plus(Plus(Plus(Plus(Plus(Plus(EnvScope1(m), EnvScope2(m)),
                   EnvScope3(m)), EnvRenewable(m)), EnvWaste(m)),
                   EnvWater(m)), EnvEnergy(m))
    IN  ScoreResult(acc.score, acc.details, EnvFallback)

----------------------------------------------------------------------------
(* score_social *)

\* a workforce block that scores a reported 0: rejected by SocialAwards
SocWorkforceZeroScored(m) ==
    LET women_workforce == Get(m, "women_in_workforce_percentage")
        v == women_workforce.val
    IN  IF women_workforce # None
        THEN IF v >= 45 THEN Award(2000, <<"[+] Strong workforce diversity", v>>)
             ELSE IF v >= 35 THEN Award(1500, <<"[o] Good workforce diversity", v>>)
             ELSE IF v >= 25 THEN Award(1000, <<"[!] Improving workforce diversity", v>>)
             ELSE Award(500, <<"[!] Limited workforce diversity", v>>)
        ELSE NoAward

SocWorkforce(m) ==
    LET women_workforce == Get(m, "women_in_workforce_percentage")
        v == women_workforce.val
    IN  IF women_workforce # None /\ v > 0
        THEN IF v >= 45 THEN Award(2000, <<"[+] Strong workforce diversity", v>>)
             ELSE IF v >= 35 THEN Award(1500, <<"[o] Good workforce diversity", v>>)
             ELSE IF v >= 25 THEN Award(1000, <<"[!] Improving workforce diversity", v>>)
             ELSE Award(500, <<"[!] Limited workforce diversity", v>>)
        ELSE NoAward

\* a leadership block whose third tier outscores the second: rejected by
\* MonotoneInPercentages
SocLeadershipInverted(m) ==
    LET women_leadership == Get(m, "women_in_leadership_percentage")
        v == women_leadership.val
    IN  IF women_leadership # None /\ v > 0
        THEN IF v >= 40 THEN Award(3000, <<"[+] Excellent leadership diversity", v>>)
             ELSE IF v >= 30 THEN Award(1000, <<"[o] Good leadership diversity", v>>)
             ELSE IF v >= 20 THEN Award(2000, <<"[!] Limited leadership diversity", v>>)
             ELSE Award(500, <<"[!] Very limited leadership diversity", v>>)
        ELSE NoAward

SocLeadership(m) ==
    LET women_leadership == Get(m, "women_in_leadership_percentage")
        v == women_leadership.val
    IN  IF women_leadership # None /\ v > 0
        THEN IF v >= 40 THEN Award(3000, <<"[+] Excellent leadership diversity", v>>)
             ELSE IF v >= 30 THEN Award(2000, <<"[o] Good leadership diversity", v>>)
             ELSE IF v >= 20 THEN Award(1000, <<"[!] Limited leadership diversity", v>>)
             ELSE Award(500, <<"[!] Very limited leadership diversity", v>>)
        ELSE NoAward

SocBoardDiversity(m) ==
    LET board_diversity == Get(m, "board_diversity_percentage")
        v == board_diversity.val
    IN  IF board_diversity # None /\ v > 0
        THEN IF v >= 40 THEN Award(2000, <<"[+] Strong board diversity", v>>)
             ELSE IF v >= 30 THEN Award(1500, <<"[o] Good board diversity", v>>)
             ELSE IF v >= 20 THEN Award(1000, <<"[!] Limited board diversity", v>>)
             ELSE Award(500, <<"[!] Very limited board diversity", v>>)
        ELSE NoAward

\* a safety block that reads None as the rate 0: rejected by
\* AllAbsentGivesFallback
SocSafetyNoneAsZero(m) ==
    LET v == Get(m, "safety_incident_rate").val
    IN  IF v < 10 THEN Award(2000, <<"[+] Excellent safety record", v>>)
        ELSE IF v < 20 THEN Award(1500, <<"[o] Good safety record", v>>)
        ELSE IF v < 30 THEN Award(1000, <<"[!] Moderate safety record", v>>)
        ELSE Award(500, <<"[!] Safety improvements needed", v>>)

\* safety_rate is in tenths: the thresholds 1.0, 2.0, 3.0 are 10, 20, 30
SocSafety(m) ==
    LET safety_rate == Get(m, "safety_incident_rate")
        v == safety_rate.val
    IN  IF safety_rate # None
        THEN IF v < 10 THEN Award(2000, <<"[+] Excellent safety record", v>>)
             ELSE IF v < 20 THEN Award(1500, <<"[o] Good safety record", v>>)
             ELSE IF v < 30 THEN Award(1000, <<"[!] Moderate safety record", v>>)
             ELSE Award(500, <<"[!] Safety improvements needed", v>>)
        ELSE NoAward

SocTraining(m) ==
    LET training_hours == Get(m, "employee_training_hours")
        v == training_hours.val
    IN  IF training_hours # None /\ v > 0
        THEN IF v >= 40 THEN Award(1000, <<"[+] Strong employee development program", v>>)
             ELSE IF v >= 20 THEN Award(700, <<"[o] Good employee development", v>>)
             ELSE Award(400, <<"[!] Limited employee development", v>>)
        ELSE NoAward

SocFallback == <<"[!] Limited social data available">>

\* the social blocks with training read before safety: rejected by
\* DetailsFollowAwards
score_socialTrainingFirst(m) ==
    LET acc == Plus(Plus(Plus(Plus(SocWorkforce(m), SocLeadership(m)),
                   SocBoardDiversity(m)), SocTraining(m)), SocSafety(m))
    IN  ScoreResult(acc.score, acc.details, SocFallback)

score_social(m) ==
    LET acc == Plus(Plus(Plus(Plus(SocWorkforce(m), SocLeadership(m)),
                   SocBoardDiversity(m)), SocSafety(m)), SocTraining(m))
    IN  ScoreResult(acc.score, acc.details, SocFallback)

----------------------------------------------------------------------------
(* score_governance *)

GovIndependence(m) ==
    LET independent_pct == Get(m, "independent_directors_percentage")
        v == independent_pct.val
    IN  IF independent_pct # None /\ v > 0
        THEN IF v >= 75 THEN Award(3000, <<"[+] Strong board independence", v>>)
             ELSE IF v >= 50 THEN Award(2000, <<"[o] Adequate board independence", v>>)
             ELSE IF v > 0 THEN Award(1000, <<"[!] Limited board independence", v>>)
             ELSE NoAward
        ELSE NoAward

\* a committee block that awards nothing for False: rejected by
\* GovernanceAwards
GovCommitteeTrueOnly(m) ==
    IF Get(m, "esg_committee_exists") = Bool(TRUE)
    THEN Award(2000, <<"[+] Dedicated ESG committee exists">>)
    ELSE NoAward

\* `is True` / `is False`: only the bool objects themselves
GovCommittee(m) ==
    IF Get(m, "esg_committee_exists") = Bool(TRUE)
    THEN Award(2000, <<"[+] Dedicated ESG committee exists">>)
    ELSE IF Get(m, "esg_committee_exists") = Bool(FALSE)
    THEN Award(500, <<"[!] No dedicated ESG committee">>)
    ELSE NoAward

GovBoardSize(m) ==
    LET board_size == Get(m, "board_size")
        v == board_size.val
    IN  IF board_size # None /\ v > 0
        THEN IF 8 <= v /\ v <= 12 THEN Award(1000, <<"[+] Optimal board size", v>>)
             ELSE IF v > 0 THEN Award(500, <<"[o] Board size", v>>)
             ELSE NoAward
        ELSE NoAward

\* an ethics block that reads an unreported count as no violations and
\* awards 2.0 for it: rejected by MoreDataNeverLowers
GovEthicsAssumingNone(m) ==
    LET violations == Get(m, "ethics_violations_reported")
        v == violations.val
    IN  IF violations # None
        THEN Plus(Award(2000, <<"[+] Transparent ethics reporting">>),
                  IF v = 0 THEN Award(2000, <<"[+] No ethics violations reported">>)
                  ELSE IF v < 5 THEN Award(1500, <<"[o] Minimal violations", v>>)
                  ELSE IF v < 10 THEN Award(1000, <<"[!] Some violations reported", v>>)
                  ELSE Award(500, <<"[!] Multiple violations reported", v>>))
        ELSE Award(3000, <<"[+] No ethics violations reported">>)

GovEthics(m) ==
    LET violations == Get(m, "ethics_violations_reported")
        v == violations.val
    IN  IF violations # None
        THEN Plus(Award(2000, <<"[+] Transparent ethics reporting">>),
                  IF v = 0 THEN Award(2000, <<"[+] No ethics violations reported">>)
                  ELSE IF v < 5 THEN Award(1500, <<"[o] Minimal violations", v>>)
                  ELSE IF v < 10 THEN Award(1000, <<"[!] Some violations reported", v>>)
                  ELSE Award(500, <<"[!] Multiple violations reported", v>>))
        ELSE NoAward

GovClimate(m) ==
    IF Truthy(Get(m, "climate_risk_disclosure"))
    THEN Award(500, <<"[+] Climate risk disclosure included">>)
    ELSE NoAward

GovFallback == <<"[!] Limited governance data available">>

score_governance(m) ==
    LET acc == Plus(Plus(Plus(Plus(GovIndependence(m), GovCommittee(m)),
                   GovBoardSize(m)), GovEthics(m)), GovClimate(m))
    IN  ScoreResult(acc.score, acc.details, GovFallback)

----------------------------------------------------------------------------
(* The metrics each scorer reads, and the block that reads each.           *)

EnvironmentalMetrics ==
    {"scope_1_emissions", "scope_2_emissions", "scope_3_emissions",
     "renewable_energy_percentage", "waste_recycled_percentage",
     "water_usage", "energy_efficiency"}

SocialMetrics ==
    {"women_in_workforce_percentage", "women_in_leadership_percentage",
     "board_diversity_percentage", "safety_incident_rate",
     "employee_training_hours"}

GovernanceMetrics ==
    {"independent_directors_percentage", "esg_committee_exists", "board_size",
     "ethics_violations_reported", "climate_risk_disclosure"}

Recognized(o) ==
    CASE o = "score_environmental" -> EnvironmentalMetrics
      [] o = "score_social" -> SocialMetrics
      [] o = "score_governance" -> GovernanceMetrics

Fallback(o) ==
    CASE o = "score_environmental" -> EnvFallback
      [] o = "score_social" -> SocFallback
      [] o = "score_governance" -> GovFallback

\* scorer.<o>(m)
Call(o, m) ==
    CASE o = "score_environmental" -> score_environmental(m)
      [] o = "score_social" -> score_social(m)
      [] o = "score_governance" -> score_governance(m)

\* the (score, details) that the block of metric k adds for the mapping m
Criterion(k, m) ==
    CASE k = "scope_1_emissions" -> EnvScope1(m)
      [] k = "scope_2_emissions" -> EnvScope2(m)
      [] k = "scope_3_emissions" -> EnvScope3(m)
      [] k = "renewable_energy_percentage" -> EnvRenewable(m)
      [] k = "waste_recycled_percentage" -> EnvWaste(m)
      [] k = "water_usage" -> EnvWater(m)
      [] k = "energy_efficiency" -> EnvEnergy(m)
      [] k = "women_in_workforce_percentage" -> SocWorkforce(m)
      [] k = "women_in_leadership_percentage" -> SocLeadership(m)
      [] k = "board_diversity_percentage" -> SocBoardDiversity(m)
      [] k = "safety_incident_rate" -> SocSafety(m)
      [] k = "employee_training_hours" -> SocTraining(m)
      [] k = "independent_directors_percentage" -> GovIndependence(m)
      [] k = "esg_committee_exists" -> GovCommittee(m)
      [] k = "board_size" -> GovBoardSize(m)
      [] k = "ethics_violations_reported" -> GovEthics(m)
      [] k = "climate_risk_disclosure" -> GovClimate(m)

----------------------------------------------------------------------------
(* Python floats in calculate_overall_score.                               *)
(*                                                                         *)
(* The weighted sum is computed in IEEE-754 binary64: each product and     *)
(* each sum is rounded to 53 significant bits, to nearest, ties to even,   *)
(* and the rating is chosen by comparing the unrounded sum.  A float is    *)
(* modelled exactly, as the natural number of its multiples of             *)
(* 2^-FracBits, written in limbs of LimbBits bits, least significant       *)
(* first.  (Inside a category scorer the binary error of the running sum,  *)
(* below 1e-14, is removed by round(score, 2); the points are carried      *)
(* there as exact thousandths instead.)                                    *)

LimbBits == 14
Base == 2 ^ LimbBits
FracLimbs == 5
FracBits == FracLimbs * LimbBits
Precision == 53

\* the sequence f[1], .., f[n], each element evaluated once
Limbs(f, n) == SubSeq(f, 1, n)

Zeros(n) == Limbs([i \in 1..n |-> 0], n)
Limb(a, i) == IF i >= 1 /\ i <= Len(a) THEN a[i] ELSE 0
Max(x, y) == IF x >= y THEN x ELSE y

\* the limbs of a sequence of digits that may exceed Base
RECURSIVE Normalize(_, _, _)
Normalize(w, i, c) ==
    IF i > Len(w) THEN <<>>
    ELSE <<(w[i] + c) % Base>> \o Normalize(w, i + 1, (w[i] + c) \div Base)

BigAdd(a, b) ==
    LET n == Max(Len(a), Len(b)) + 1
    IN  Normalize(Limbs([i \in 1..n |-> Limb(a, i) + Limb(b, i)], n), 1, 0)

RECURSIVE Column(_, _, _, _)
Column(a, b, k, i) ==
    IF i > Len(a) THEN 0
    ELSE Limb(a, i) * Limb(b, k + 1 - i) + Column(a, b, k, i + 1)

BigMul(a, b) ==
    LET n == Len(a) + Len(b)
    IN  Normalize(Limbs([k \in 1..n |-> Column(a, b, k, 1)], n), 1, 0)

\* -1, 0, 1 as a < b, a = b, a > b
RECURSIVE CompareFrom(_, _, _)
CompareFrom(a, b, i) ==
    IF i = 0 THEN 0
    ELSE IF Limb(a, i) < Limb(b, i) THEN -1
    ELSE IF Limb(a, i) > Limb(b, i) THEN 1
    ELSE CompareFrom(a, b, i - 1)

BigCompare(a, b) == CompareFrom(a, b, Max(Len(a), Len(b)))

\* the number of bits of x
RECURSIVE BitsOf(_)
BitsOf(x) == IF x = 0 THEN 0 ELSE 1 + BitsOf(x \div 2)

RECURSIVE TopLimb(_, _)
TopLimb(a, i) == IF i = 0 \/ a[i] # 0 THEN i ELSE TopLimb(a, i - 1)

BitLength(a) ==
    LET t == TopLimb(a, Len(a))
    IN  IF t = 0 THEN 0 ELSE (t - 1) * LimbBits + BitsOf(a[t])

\* a rounded to Precision significant bits, to nearest, ties to even.  The
\* s bits dropped end in limb q + 1, which keeps its bits from r up; the
\* first dropped bit (guard) and the bits below it (sticky) decide.
RoundToPrecision(a) ==
    LET s == BitLength(a) - Precision
        q == s \div LimbBits
        r == s % LimbBits
        p == 2 ^ r
        low == a[q + 1] % p
        guard == IF r = 0 THEN a[q] \div (Base \div 2) ELSE low \div (p \div 2)
        below == IF r = 0 THEN a[q] % (Base \div 2) ELSE low % (p \div 2)
        sticky == below # 0 \/ \E i \in 1..(IF r = 0 THEN q - 1 ELSE q) : a[i] # 0
        lsb == (a[q + 1] \div p) % 2
        up == guard = 1 /\ (sticky \/ lsb = 1)
        kept == a[q + 1] - low + (IF up THEN p ELSE 0)
        cut == Limbs([i \in 1..Len(a) |->
                         IF i <= q THEN 0 ELSE IF i = q + 1 THEN kept ELSE a[i]], Len(a))
    IN  IF s <= 0 THEN a
        ELSE IF kept < Base THEN cut
        ELSE Normalize(cut \o <<0>>, 1, 0)

\* the first n limbs dropped (a division by Base^n, exact after rounding)
DropLimbs(a, n) == SubSeq(a, n + 1, Len(a))

\* a \div d and a % d for a small d, from the top limb down
RECURSIVE DivSmall(_, _, _, _)
DivSmall(a, d, i, r) ==
    IF i = 0 THEN [quot |-> <<>>, rem |-> r]
    ELSE LET t == r * Base + a[i]
             rest == DivSmall(a, d, i - 1, t % d)
         IN  [quot |-> rest.quot \o <<t \div d>>, rem |-> rest.rem]

GuardLimbs == 2

\* the float nearest to n/d: a literal such as 0.40, or the value of round(x, 2)
FloatOf(n, d) ==
    LET q == DivSmall(Zeros(FracLimbs + GuardLimbs) \o <<n % Base, n \div Base>>,
                      d, FracLimbs + GuardLimbs + 2, 0)
        sticky == IF q.rem # 0 /\ q.quot[1] % 2 = 0
                  THEN [q.quot EXCEPT ![1] = @ + 1] ELSE q.quot
    IN  DropLimbs(RoundToPrecision(sticky), GuardLimbs)

\* x * y and x + y on floats
FloatMul(x, y) == DropLimbs(RoundToPrecision(BigMul(x, y)), FracLimbs)
FloatAdd(x, y) == RoundToPrecision(BigAdd(x, y))
FloatGeq(x, y) == BigCompare(x, y) >= 0

\* round(x, 2) of a float, as a number of hundredths: the decimal nearest to
\* the exact binary value of x, ties to even
RoundFloat2(x) ==
    LET n == Len(x) + 1
        h == Normalize(Limbs([i \in 1..n |-> Limb(x, i) * 100], n), 1, 0)
        whole == Limb(h, FracLimbs + 1) + Base * Limb(h, FracLimbs + 2)
        top == h[FracLimbs]
        more == top > Base \div 2 \/ (top = Base \div 2 /\ \E i \in 1..(FracLimbs - 1) : h[i] # 0)
        tie == top = Base \div 2 /\ \A i \in 1..(FracLimbs - 1) : h[i] = 0
    IN  IF more \/ (tie /\ whole % 2 = 1) THEN whole + 1 ELSE whole

----------------------------------------------------------------------------
(* calculate_overall_score *)

\* a get without the {} default: rejected by TotalOnValidRecords
GetMappingNoDefault(m, k) == IF k \in DOMAIN m THEN m[k] ELSE None

\* dict.get(k, {})
GetMapping(m, k) == IF k \in DOMAIN m THEN m[k] ELSE <<>>

\* the weights set by __init__, in hundredths
InitialWeights == [environmental |-> 40, social |-> 30, governance |-> 30]

\* score * weight in floats, for a score and a weight in hundredths
Product(score, w) == FloatMul(FloatOf(score, 100), FloatOf(w, 100))

\* the products of every score in 0.00 .. 10.00 with the weights of __init__,
\* computed once
ProductsEnvironmental ==
    Limbs([k \in 1..(max_score * 100 + 1) |-> Product(k - 1, InitialWeights.environmental)],
          max_score * 100 + 1)
ProductsSocial ==
    Limbs([k \in 1..(max_score * 100 + 1) |-> Product(k - 1, InitialWeights.social)],
          max_score * 100 + 1)
ProductsGovernance ==
    Limbs([k \in 1..(max_score * 100 + 1) |-> Product(k - 1, InitialWeights.governance)],
          max_score * 100 + 1)

Weighted(table, score, w, w0) ==
    IF w = w0 /\ score \in 0..(max_score * 100) THEN table[score + 1]
    ELSE Product(score, w)

\* a weighted sum with the environmental and social weights exchanged: rejected
\* by OverallIsWeightedSum
WeightedSumSwapped(env, social, gov, w) ==
    FloatAdd(FloatAdd(Product(env.score, w.social),
                      Product(social.score, w.environmental)),
             Product(gov.score, w.governance))

\* env*w.environmental + social*w.social + gov*w.governance, left to right
WeightedSum(env, social, gov, w) ==
    FloatAdd(FloatAdd(Weighted(ProductsEnvironmental, env.score,
                               w.environmental, InitialWeights.environmental),
                      Weighted(ProductsSocial, social.score,
                               w.social, InitialWeights.social)),
             Weighted(ProductsGovernance, gov.score,
                      w.governance, InitialWeights.governance))

Excellent == FloatOf(8, 1)
Good == FloatOf(65, 10)
Fair == FloatOf(5, 1)
NeedsImprovement == FloatOf(3, 1)

\* a rating with `>` in place of `>=`: rejected by RatingFollowsBands
RatingStrict(x) ==
    IF BigCompare(x, Excellent) > 0 THEN <<"Excellent", "star">>
    ELSE IF BigCompare(x, Good) > 0 THEN <<"Good", "check">>
    ELSE IF BigCompare(x, Fair) > 0 THEN <<"Fair", "warning">>
    ELSE IF BigCompare(x, NeedsImprovement) > 0 THEN <<"Needs Improvement", "warning">>
    ELSE <<"Limited Data", "question">>

\* <<rating, rating_emoji>> of the unrounded sum
Rating(x) ==
    IF FloatGeq(x, Excellent) THEN <<"Excellent", "star">>
    ELSE IF FloatGeq(x, Good) THEN <<"Good", "check">>
    ELSE IF FloatGeq(x, Fair) THEN <<"Fair", "warning">>
    ELSE IF FloatGeq(x, NeedsImprovement) THEN <<"Needs Improvement", "warning">>
    ELSE <<"Limited Data", "question">>

\* a breakdown line "<score>/10 (<weight*100>% weight)", by its two numbers
Breakdown(score, w) == [score |-> score.score, weight |-> w]

\* a leaf value where a mapping is expected: `metrics.get` raises on it
NotAMapping(m) == DOMAIN m = {"kind", "val"}

\* the locals of calculate_overall_score at its return statement; a category
\* scorer given a value that is no mapping raises AttributeError at its first
\* metrics.get, and the exception leaves calculate_overall_score
OverallFrame(m, w) ==
    LET env_score == score_environmental(GetMapping(m, "environmental"))
        social_score == score_social(GetMapping(m, "social"))
        gov_score == score_governance(GetMapping(m, "governance"))
        sum == WeightedSum(env_score, social_score, gov_score, w)
        band == Rating(sum)
    IN  IF \/ NotAMapping(GetMapping(m, "environmental"))
           \/ NotAMapping(GetMapping(m, "social"))
           \/ NotAMapping(GetMapping(m, "governance"))
        THEN [raised |-> TRUE, overall |-> <<>>, ret |-> [error |-> "AttributeError"]]
        ELSE
        [raised |-> FALSE,
         overall |-> sum,
         ret |-> [overall_score |-> RoundFloat2(sum),
                  max_score |-> 10,
                  rating |-> band[1],
                  rating_emoji |-> band[2],
                  environmental |-> env_score,
                  social |-> social_score,
                  governance |-> gov_score,
                  breakdown |-> [environmental |-> Breakdown(env_score, w.environmental),
                                 social |-> Breakdown(social_score, w.social),
                                 governance |-> Breakdown(gov_score, w.governance)]]]

calculate_overall_score(m, w) == OverallFrame(m, w).ret

----------------------------------------------------------------------------
(* Inputs.  A numeric metric is sampled at 0, at each threshold of the code *)
(* and just below it, and at the largest value of its domain.  Every metric *)
(* may also be None or have no key in the mapping, and a mapping may hold a *)
(* key that no scorer reads.  The values 78 and 10 are those of the sample  *)
(* record of the module's own test.                                         *)

MaxPercent == 100
MaxSafetyRate == 50
MaxTrainingHours == 60
MaxBoardSize == 20
MaxViolations == 15

\* enumeration only: the key is not in the mapping
Missing == [kind |-> "missing", val |-> 0]

Around(thresholds, max) ==
    {Num(n) : n \in {0, max} \cup thresholds \cup {t - 1 : t \in thresholds}}

Absent == {Missing, None}
Reported == Absent \cup {Obj(0), Obj(1)}
Flag == Absent \cup {Bool(FALSE), Bool(TRUE)}
Unread == {Missing, Num(1)}

\* None, or the value that earns the most
Best(v) == {None, v}

\* the mapping of a template, its Missing keys dropped
Build(t) == [k \in {x \in DOMAIN t : t[x] # Missing} |-> t[k]]

EnvironmentalTemplates ==
    [scope_1_emissions : Reported,
     scope_2_emissions : Reported,
     scope_3_emissions : Reported,
     renewable_energy_percentage :
         Absent \cup Around({25, 50, 75}, MaxPercent) \cup {Num(78)},
     waste_recycled_percentage : Absent \cup Around({25, 50, 75}, MaxPercent),
     water_usage : Reported,
     energy_efficiency : Reported,
     unrecognized_metric : Unread]

SocialTemplates ==
    [women_in_workforce_percentage : Absent \cup Around({25, 35, 45}, MaxPercent),
     women_in_leadership_percentage : Absent \cup Around({20, 30, 40}, MaxPercent),
     board_diversity_percentage : Absent \cup Around({20, 30, 40}, MaxPercent),
     safety_incident_rate : Absent \cup Around({10, 20, 30}, MaxSafetyRate),
     employee_training_hours : Absent \cup Around({20, 40}, MaxTrainingHours),
     unrecognized_metric : Unread]

GovernanceTemplates ==
    [independent_directors_percentage : Absent \cup Around({50, 75}, MaxPercent),
     esg_committee_exists : Flag,
     board_size : Absent \cup Around({8, 13}, MaxBoardSize) \cup {Num(10)},
     ethics_violations_reported : Absent \cup Around({5, 10}, MaxViolations),
     climate_risk_disclosure : Flag,
     unrecognized_metric : Unread]

----------------------------------------------------------------------------
(* The scorer as a state machine: a call of one method on one argument.    *)

InitScorer == weights = InitialWeights

\* no earlier call, no call in progress, and the app's globals as at import
\* the browser sessions of gradio_app1, each with its own gr.State list
Sessions == {"s1", "s2"}

\* a Chroma store holding the chunks of the reports named in sources
Chroma(sources) == [kind |-> "chroma", val |-> sources]

\* rag_engine.add_documents(chunks, metadatas) for the chunks of one report,
\* when Chroma returns: the store is created by from_texts or extended by
\* add_texts
add_documents(store, source) ==
    IF store = None THEN Chroma({source}) ELSE Chroma(store.val \cup {source})

\* RAGEngine.__init__, and gr.State([]) for every session
InitRag ==
    /\ vectorstore = None
    /\ processed_files = [s \in Sessions |-> <<>>]

InitContext ==
    /\ history = {}
    /\ frames = <<>>
    /\ COMPANY_DATA = <<>>
    /\ PROCESSED_FILES = <<>>
    /\ InitRag

InitCategory ==
    /\ InitScorer
    /\ InitContext
    /\ pc = "call"
    /\ overall = <<>>
    /\ result = <<>>
    /\ \/ op = "score_environmental" /\ \E t \in EnvironmentalTemplates : metrics = Build(t)
       \/ op = "score_social" /\ \E t \in SocialTemplates : metrics = Build(t)
       \/ op = "score_governance" /\ \E t \in GovernanceTemplates : metrics = Build(t)

ScoreEnvironmental ==
    /\ pc = "call" /\ op = "score_environmental"
    /\ result' = score_environmental(metrics)
    /\ pc' = "return"
    /\ UNCHANGED <<weights, op, metrics, overall, context>>

ScoreSocial ==
    /\ pc = "call" /\ op = "score_social"
    /\ result' = score_social(metrics)
    /\ pc' = "return"
    /\ UNCHANGED <<weights, op, metrics, overall, context>>

ScoreGovernance ==
    /\ pc = "call" /\ op = "score_governance"
    /\ result' = score_governance(metrics)
    /\ pc' = "return"
    /\ UNCHANGED <<weights, op, metrics, overall, context>>

NextCategory == ScoreEnvironmental \/ ScoreSocial \/ ScoreGovernance

SpecCategory == InitCategory /\ [][NextCategory]_vars

----------------------------------------------------------------------------
(* Records given to calculate_overall_score.  A category key is missing, or *)
(* its mapping is empty, or holds every metric at None or at the best value *)
(* of its domain (waste and training also at a lower tier, for scores that  *)
(* are no multiples of 0.5); or its value is None instead of a mapping.     *)

EmptyMapping == [k \in {} |-> None]

EnvironmentalReports ==
    {EmptyMapping} \cup
    [scope_1_emissions : Best(Obj(1)),
     scope_2_emissions : Best(Obj(1)),
     scope_3_emissions : Best(Obj(1)),
     renewable_energy_percentage : Best(Num(MaxPercent)),
     waste_recycled_percentage : Best(Num(MaxPercent)) \cup {Num(25)}]

SocialReports ==
    {EmptyMapping} \cup
    [women_in_workforce_percentage : Best(Num(MaxPercent)),
     women_in_leadership_percentage : Best(Num(MaxPercent)),
     board_diversity_percentage : Best(Num(MaxPercent)),
     safety_incident_rate : Best(Num(0)),
     employee_training_hours : Best(Num(MaxTrainingHours)) \cup {Num(20)}]

GovernanceReports ==
    {EmptyMapping} \cup
    [independent_directors_percentage : Best(Num(MaxPercent)),
     esg_committee_exists : Best(Bool(TRUE)),
     board_size : Best(Num(8)),
     ethics_violations_reported : Best(Num(0)),
     climate_risk_disclosure : Best(Bool(TRUE))]

RecordTemplates ==
    [environmental : {Missing, None} \cup EnvironmentalReports,
     social : {Missing, None} \cup SocialReports,
     governance : {Missing, None} \cup GovernanceReports]

InitOverall ==
    /\ InitScorer
    /\ InitContext
    /\ pc = "call"
    /\ overall = <<>>
    /\ result = <<>>
    /\ op = "calculate_overall_score"
    /\ \E t \in RecordTemplates : metrics = Build(t)

CalculateOverallScore ==
    /\ pc = "call" /\ op = "calculate_overall_score"
    /\ \E frame \in {OverallFrame(metrics, weights)} :  \* computed once
           /\ overall' = frame.overall
           /\ result' = frame.ret
           /\ pc' = IF frame.raised THEN "raise" ELSE "return"
    /\ UNCHANGED <<weights, op, metrics, context>>

NextOverall == CalculateOverallScore

SpecOverall == InitOverall /\ [][NextOverall]_vars

----------------------------------------------------------------------------
(* A category scorer called again and again on records that differ in one  *)
(* percentage metric, raised by one each time.  The first record holds each *)
(* percentage at None, at 0 or at the top, or lacks its key; a percentage   *)
(* is raised while the other percentages are still at such a value, so each *)
(* is swept over 0 .. MaxPercent against every choice of the others.        *)

Percentages ==
    {"renewable_energy_percentage", "waste_recycled_percentage",
     "women_in_workforce_percentage", "women_in_leadership_percentage",
     "board_diversity_percentage", "independent_directors_percentage"}

Ends == Absent \cup {Num(0), Num(MaxPercent)}

EnvironmentalSweeps ==
    [scope_1_emissions : Best(Obj(1)),
     scope_2_emissions : Best(Obj(1)),
     scope_3_emissions : Best(Obj(1)),
     renewable_energy_percentage : Ends,
     waste_recycled_percentage : Ends,
     water_usage : Best(Obj(1)),
     energy_efficiency : Best(Obj(1))]

SocialSweeps ==
    [women_in_workforce_percentage : Ends,
     women_in_leadership_percentage : Ends,
     board_diversity_percentage : Ends,
     safety_incident_rate : Best(Num(0)),
     employee_training_hours : Best(Num(MaxTrainingHours))]

GovernanceSweeps ==
    [independent_directors_percentage : Ends,
     esg_committee_exists : Best(Bool(TRUE)),
     board_size : Best(Num(8)),
     ethics_violations_reported : Best(Num(0)),
     climate_risk_disclosure : Best(Bool(TRUE))]

InitMonotone ==
    /\ InitScorer
    /\ InitContext
    /\ pc = "call"
    /\ overall = <<>>
    /\ result = <<>>
    /\ \/ op = "score_environmental" /\ \E t \in EnvironmentalSweeps : metrics = Build(t)
       \/ op = "score_social" /\ \E t \in SocialSweeps : metrics = Build(t)
       \/ op = "score_governance" /\ \E t \in GovernanceSweeps : metrics = Build(t)

\* the same method called on the record with percentage k one higher
ScoreAgain ==
    /\ pc = "return"
    /\ \E k \in Percentages \cap DOMAIN metrics :
           /\ metrics[k].kind = "num" /\ metrics[k].val < MaxPercent
           /\ \A j \in (Percentages \cap DOMAIN metrics) \ {k} : metrics[j] \in Ends
           /\ metrics' = [metrics EXCEPT ![k] = Num(metrics[k].val + 1)]
    /\ result' = Call(op, metrics')
    /\ UNCHANGED <<weights, op, pc, overall, context>>

NextMonotone == ScoreEnvironmental \/ ScoreSocial \/ ScoreGovernance \/ ScoreAgain

SpecMonotone == InitMonotone /\ [][NextMonotone]_vars

----------------------------------------------------------------------------
(* The dashboard app (gradio_app2.py): process_pdfs called again and again *)
(* on lists of uploaded files.  What the app learns of a file is its name   *)
(* and what analyzer.extract_metrics returns for its text: a record, or the *)
(* error indicator {"error": <message>} when the model call or the JSON     *)
(* parsing failed (analyzers.py:114-116), or JSON of another shape.         *)

MaxFiles == 2

FileNames == {"a.pdf", "b.pdf"}

\* a non-empty string
Text == [kind |-> "str", val |-> 1]

\* the sample record of scoring.py's own test
SampleRecord ==
    [environmental |->
         [scope_1_emissions |-> Obj(3),
          scope_2_emissions |-> Obj(3),
          scope_3_emissions |-> None,
          renewable_energy_percentage |-> Num(78),
          waste_recycled_percentage |-> None],
     social |->
         [women_in_workforce_percentage |-> Num(42),
          women_in_leadership_percentage |-> None,
          board_diversity_percentage |-> Num(45),
          safety_incident_rate |-> Num(8),
          employee_training_hours |-> None],
     governance |->
         [independent_directors_percentage |-> None,
          board_size |-> Num(10),
          esg_committee_exists |-> Bool(TRUE),
          ethics_violations_reported |-> Num(0)]]

\* what a failed extraction returns
ErrorIndicator == [error |-> Text]

\* JSON that parsed, with null where a category is expected
NullCategoryRecord == [environmental |-> None]

Extractions == <<SampleRecord, ErrorIndicator, NullCategoryRecord>>

\* calculate_overall_score on each of them with the weights of __init__,
\* computed once
ExtractionFrames ==
    Limbs([i \in 1..Len(Extractions) |-> OverallFrame(Extractions[i], InitialWeights)],
          Len(Extractions))

\* scorer.calculate_overall_score(m): what it returns or raises
ScoreFrame(m, w) ==
    IF w = InitialWeights /\ \E i \in 1..Len(Extractions) : Extractions[i] = m
    THEN ExtractionFrames[CHOOSE i \in 1..Len(Extractions) : Extractions[i] = m]
    ELSE OverallFrame(m, w)

\* an uploaded file: its base name and the outcome of extract_metrics on it
Uploads == [name : FileNames, extracted : {Extractions[i] : i \in 1..Len(Extractions)}]

RECURSIVE UploadLists(_)
UploadLists(n) ==
    IF n = 0 THEN {<<>>}
    ELSE UploadLists(n - 1) \cup
         {Append(l, f) : l \in {x \in UploadLists(n - 1) : Len(x) = n - 1}, f \in Uploads}

\* d[k] = v
Put(d, k, v) == [x \in DOMAIN d \cup {k} |-> IF x = k THEN v ELSE d[x]]

Contains(list, x) == \E i \in 1..Len(list) : list[i] = x

\* an append without the membership test: rejected by
\* ProcessedFilesMatchCompanyData
RememberAlways(processed, filename) == Append(processed, filename)

\* if filename not in PROCESSED_FILES: PROCESSED_FILES.append(filename)
Remember(processed, filename) ==
    IF Contains(processed, filename) THEN processed ELSE Append(processed, filename)

\* the call of the scorer for one file, as an entry of the history
ScorerCall(m, frame) ==
    [op |-> "calculate_overall_score", metrics |-> m, result |-> frame.ret,
     raised |-> frame.raised]

\* one pass of the loop body of process_pdfs, given what the scorer call did:
\* the chunks go to the vector store first (here add_documents returns; its
\* failure is a case of SpecRag); an exception of the scorer leaves the loop
\* and the function before anything is stored in COMPANY_DATA
Store(app, filename, extracted, frame) ==
    IF frame.raised
    THEN [app EXCEPT !.calls = @ \cup {ScorerCall(extracted, frame)}, !.raised = TRUE,
                     !.store = add_documents(@, filename)]
    ELSE [data |-> Put(app.data, filename, [metrics |-> extracted, score |-> frame.ret]),
          processed |-> Remember(app.processed, filename),
          calls |-> app.calls \cup {ScorerCall(extracted, frame)},
          raised |-> FALSE,
          store |-> add_documents(app.store, filename)]

\* the loop of process_pdfs from the i-th file on
RECURSIVE ProcessFrom(_, _, _, _)
ProcessFrom(files, i, app, w) ==
    IF i > Len(files) \/ app.raised THEN app
    ELSE ProcessFrom(files, i + 1,
             Store(app, files[i].name, files[i].extracted,
                   ScoreFrame(files[i].extracted, w)), w)

InitApp ==
    /\ InitScorer
    /\ InitContext
    /\ op = "process_pdfs"
    /\ metrics = <<>>
    /\ pc = "idle"
    /\ overall = <<>>
    /\ result = <<>>

\* process_pdfs(files)
ProcessPdfs ==
    /\ \E files \in UploadLists(MaxFiles) :
           /\ metrics' = files
           /\ IF files = <<>>
              THEN /\ result' = [message |-> "No files uploaded", count |-> 0]
                   /\ pc' = "return"
                   /\ UNCHANGED <<history, COMPANY_DATA, PROCESSED_FILES, vectorstore>>
              ELSE \E app \in {ProcessFrom(files, 1,
                                   [data |-> COMPANY_DATA, processed |-> PROCESSED_FILES,
                                    calls |-> history, raised |-> FALSE,
                                    store |-> vectorstore], weights)} :
                       /\ COMPANY_DATA' = app.data
                       /\ vectorstore' = app.store
                       /\ PROCESSED_FILES' = app.processed
                       /\ history' = app.calls
                       /\ pc' = IF app.raised THEN "raise" ELSE "return"
                       /\ result' = IF app.raised THEN [error |-> "AttributeError"]
                                    ELSE [message |-> "Successfully processed",
                                          count |-> Len(files)]
    /\ UNCHANGED <<weights, op, overall, frames, processed_files>>

NextApp == ProcessPdfs

SpecApp == InitApp /\ [][NextApp]_vars

----------------------------------------------------------------------------
(* The question-answering app (gradio_app1.py): process_pdfs and           *)
(* answer_question of any session, on the one rag_engine of the module,    *)
(* and the methods of RAGEngine called directly.                           *)

\* the longest processed_files list of the enumeration
MaxProcessed == 2

Questions == {"", "What are the scope 1 emissions?"}

\* str.strip() of a question is empty
Blank(question) == question = ""

\* an uploaded report, and whether add_documents returns for its chunks
\* (Chroma or the embedding model may raise)
RagUploads == [name : FileNames, added : BOOLEAN]

RECURSIVE RagUploadLists(_)
RagUploadLists(n) ==
    IF n = 0 THEN {<<>>}
    ELSE RagUploadLists(n - 1) \cup
         {Append(l, f) : l \in {x \in RagUploadLists(n - 1) : Len(x) = n - 1},
                         f \in RagUploads}

NoDocuments == [error |-> "No documents loaded. Please add documents first."]

\* rag_engine.query(question): the error dict while there is no store; else
\* the retrieval chain runs and returns the answer with its sources, or raises
query(store, question, answered) ==
    IF store = None THEN [raised |-> FALSE, ret |-> NoDocuments]
    ELSE IF answered
    THEN [raised |-> FALSE,
          ret |-> [answer |-> "answer", source_documents |-> store.val]]
    ELSE [raised |-> TRUE, ret |-> [error |-> "Exception"]]

\* rag_engine.similarity_search(query)
similarity_search(store, question) ==
    IF store = None THEN <<>> ELSE <<"documents", store.val>>

\* a loop body that appends the name before the chunks are added: rejected
\* by StoreIsReadyWhenAsked
AppendThenAdd(run, file) ==
    IF ~file.added
    THEN [run EXCEPT !.raised = TRUE, !.processed = Append(@, file.name)]
    ELSE [store |-> add_documents(run.store, file.name),
          processed |-> Append(run.processed, file.name),
          raised |-> FALSE]

\* the loop body of process_pdfs: add_documents, then processed_files.append
AddThenAppend(run, file) ==
    IF ~file.added
    THEN [run EXCEPT !.raised = TRUE]
    ELSE [store |-> add_documents(run.store, file.name),
          processed |-> Append(run.processed, file.name),
          raised |-> FALSE]

\* the loop of process_pdfs from the i-th file on
RECURSIVE IngestFrom(_, _, _)
IngestFrom(files, i, run) ==
    IF i > Len(files) \/ run.raised THEN run
    ELSE IngestFrom(files, i + 1, AddThenAppend(run, files[i]))

InitRagApp ==
    /\ InitScorer
    /\ InitContext
    /\ op = "__init__"
    /\ metrics = <<>>
    /\ pc = "idle"
    /\ overall = <<>>
    /\ result = <<>>

\* process_pdfs(files, processed_files) of session s.  The list is appended
\* to in place; when the handler raises, the session keeps either the list
\* as appended to so far or the list it had.
ProcessPdfsRag ==
    /\ \E s \in Sessions : \E files \in RagUploadLists(MaxFiles) :
           /\ Len(processed_files[s]) + Len(files) <= MaxProcessed
           /\ metrics' = <<s, files>>
           /\ IF files = <<>>
              THEN /\ result' = [message |-> "No files uploaded."]
                   /\ pc' = "return"
                   /\ UNCHANGED rag
              ELSE \E run \in {IngestFrom(files, 1,
                                   [store |-> vectorstore,
                                    processed |-> processed_files[s],
                                    raised |-> FALSE])} :
                       /\ vectorstore' = run.store
                       /\ \E kept \in IF run.raised
                                      THEN {run.processed, processed_files[s]}
                                      ELSE {run.processed} :
                              processed_files' = [processed_files EXCEPT ![s] = kept]
                       /\ pc' = IF run.raised THEN "raise" ELSE "return"
                       /\ result' = IF run.raised THEN [error |-> "Exception"]
                                    ELSE [message |-> "processed"]
    /\ op' = "process_pdfs"
    /\ frames' = <<>>
    /\ UNCHANGED <<weights, overall, history, COMPANY_DATA, PROCESSED_FILES>>

\* answer_question(question, processed_files) of session s; frames holds its
\* local `result`, what rag_engine.query returned
AnswerQuestion ==
    /\ \E s \in Sessions : \E question \in Questions : \E answered \in BOOLEAN :
           /\ metrics' = <<s, question>>
           /\ IF processed_files[s] = <<>>
              THEN /\ result' = [message |-> "Please upload and process PDFs first."]
                   /\ pc' = "return"
                   /\ frames' = <<>>
              ELSE IF Blank(question)
              THEN /\ result' = [message |-> "Please enter a valid question."]
                   /\ pc' = "return"
                   /\ frames' = <<>>
              ELSE \E call \in {query(vectorstore, question, answered)} :
                       IF call.raised
                       THEN /\ result' = call.ret
                            /\ pc' = "raise"
                            /\ frames' = <<>>
                       ELSE /\ frames' = [result |-> call.ret]
                            /\ IF "source_documents" \in DOMAIN call.ret
                               THEN /\ result' = [answer |-> call.ret.answer,
                                                  sources |-> call.ret.source_documents]
                                    /\ pc' = "return"
                               ELSE /\ result' = [error |-> "KeyError"]
                                    /\ pc' = "raise"
    /\ op' = "answer_question"
    /\ UNCHANGED <<weights, overall, history, COMPANY_DATA, PROCESSED_FILES, rag>>

\* rag_engine.query(question) called directly
Query ==
    /\ \E question \in Questions : \E answered \in BOOLEAN :
       \E call \in {query(vectorstore, question, answered)} :
           /\ metrics' = question
           /\ result' = call.ret
           /\ pc' = IF call.raised THEN "raise" ELSE "return"
    /\ op' = "query"
    /\ frames' = <<>>
    /\ UNCHANGED <<weights, overall, history, COMPANY_DATA, PROCESSED_FILES, rag>>

\* rag_engine.similarity_search(query) called directly
SimilaritySearch ==
    /\ \E question \in Questions :
           /\ metrics' = question
           /\ result' = similarity_search(vectorstore, question)
    /\ pc' = "return"
    /\ op' = "similarity_search"
    /\ frames' = <<>>
    /\ UNCHANGED <<weights, overall, history, COMPANY_DATA, PROCESSED_FILES, rag>>

\* rag_engine.load_existing_database(): if the persist directory exists, the
\* store becomes the persisted collection, which holds what was added to it
\* in this run and possibly reports of earlier runs
LoadExistingDatabase ==
    /\ \E exists \in BOOLEAN : \E persisted \in SUBSET FileNames :
           /\ vectorstore # None => vectorstore.val \subseteq persisted
           /\ vectorstore' = IF exists THEN Chroma(persisted) ELSE vectorstore
           /\ result' = exists
    /\ pc' = "return"
    /\ op' = "load_existing_database"
    /\ metrics' = <<>>
    /\ frames' = <<>>
    /\ UNCHANGED <<weights, overall, history, COMPANY_DATA, PROCESSED_FILES,
                   processed_files>>

NextRagApp ==
    \/ ProcessPdfsRag
    \/ AnswerQuestion
    \/ Query
    \/ SimilaritySearch
    \/ LoadExistingDatabase

SpecRag == InitRagApp /\ [][NextRagApp]_vars

----------------------------------------------------------------------------
(* One scorer object called again and again, by any of its four methods.   *)
(* A call reads self.weights and reads its argument through .get only; the *)
(* accumulators `score` and `details` are locals, created by each call.    *)

\* the arguments tried for each method
Arguments(o) ==
    CASE o = "score_environmental" -> {EmptyMapping, SampleRecord.environmental}
      [] o = "score_social" -> {EmptyMapping, SampleRecord.social}
      [] o = "score_governance" -> {EmptyMapping, SampleRecord.governance}
      [] o = "calculate_overall_score" -> {Extractions[i] : i \in 1..Len(Extractions)}

Methods ==
    {"score_environmental", "score_social", "score_governance", "calculate_overall_score"}

\* the call itself: what it returns or raises, and its local `overall`
MethodFrame(o, m, w) ==
    IF o = "calculate_overall_score" THEN ScoreFrame(m, w)
    ELSE [raised |-> FALSE, overall |-> <<>>, ret |-> Call(o, m)]

\* the scorer and the argument after a call: no method assigns either
Outcome(frame, m, w) ==
    [ret |-> frame.ret, raised |-> frame.raised, overall |-> frame.overall,
     weights |-> w,
     metrics |-> m]

\* a scorer that fills a missing category with {} in its argument: rejected
\* by RepeatedCallsAgree
InvocationFillingIn(o, m, w) ==
    [Outcome(MethodFrame(o, m, w), m, w) EXCEPT
        !.metrics = IF o = "calculate_overall_score"
                    THEN [c \in DOMAIN m \cup {"environmental", "social", "governance"} |->
                              IF c \in DOMAIN m THEN m[c] ELSE EmptyMapping]
                    ELSE m]

\* a scorer that moves the weight of a category without data to the others:
\* rejected by WeightsAreFixed
InvocationRenormalizing(o, m, w) ==
    [Outcome(MethodFrame(o, m, w), m, w) EXCEPT
        !.weights = IF o = "calculate_overall_score" /\ "environmental" \notin DOMAIN m
                    THEN [environmental |-> 0, social |-> 50, governance |-> 50]
                    ELSE w]

\* scorer.<o>(m) with self.weights = w: what it returns or raises, and what
\* self.weights and the argument are afterwards
Invocation(o, m, w) == Outcome(MethodFrame(o, m, w), m, w)

InitCalls ==
    /\ InitScorer
    /\ InitContext
    /\ op = "__init__"
    /\ metrics = <<>>
    /\ pc = "idle"
    /\ overall = <<>>
    /\ result = <<>>

\* any method called on any of its arguments
Invoke ==
    /\ \E o \in Methods : \E m \in Arguments(o) : \E call \in {Invocation(o, m, weights)} :
           /\ op' = o
           /\ metrics' = call.metrics
           /\ weights' = call.weights
           /\ overall' = call.overall
           /\ result' = call.ret
           /\ pc' = IF call.raised THEN "raise" ELSE "return"
           /\ history' = history \cup
                  {[op |-> o, metrics |-> m, result |-> call.ret, raised |-> call.raised]}
    /\ UNCHANGED <<frames, COMPANY_DATA, PROCESSED_FILES, rag>>

NextCalls == Invoke

SpecCalls == InitCalls /\ [][NextCalls]_vars

----------------------------------------------------------------------------
(* PDFProcessor.chunk_text(text, chunk_size, overlap): a text is a         *)
(* sequence of characters, positions are Python's (from 0).                *)

MaxLen == 6
MaxChunkSize == 5
\* the loop is cut off after this many chunks
MaxChunks == 8

Characters == {"a", ".", "\n"}

Texts == UNION {[1..n -> Characters] : n \in 0..MaxLen}

Min(a, b) == IF a < b THEN a ELSE b

\* where a slice bound lies: a negative one counts from the end
Clamp(i, len) == IF i < 0 THEN Max(len + i, 0) ELSE Min(i, len)

\* text[a:b]
Slice(text, a, b) == SubSeq(text, Clamp(a, Len(text)) + 1, Clamp(b, Len(text)))

\* chunk.rfind(c): the last position of c, or -1
rfind(chunk, c) ==
    IF \E i \in 1..Len(chunk) : chunk[i] = c
    THEN (CHOOSE i \in 1..Len(chunk) :
              chunk[i] = c /\ \A j \in (i + 1)..Len(chunk) : chunk[j] # c) - 1
    ELSE 0 - 1

\* chunk.strip()
RECURSIVE strip(_)
strip(chunk) ==
    IF chunk = <<>> THEN chunk
    ELSE IF chunk[1] = "\n" THEN strip(Tail(chunk))
    ELSE IF chunk[Len(chunk)] = "\n" THEN strip(SubSeq(chunk, 1, Len(chunk) - 1))
    ELSE chunk

\* one pass of the loop body from `start`: the chunk appended and the next
\* start
Chunk(text, chunk_size, overlap, start) ==
    LET finish == start + chunk_size
        chunk == Slice(text, start, finish)
        break_point == Max(rfind(chunk, "."), rfind(chunk, "\n"))
        shortened == finish < Len(text) /\ break_point * 2 > chunk_size
    IN  IF shortened
        THEN [chunk |-> strip(Slice(chunk, 0, break_point + 1)),
              start |-> start + break_point + 1 - overlap]
        ELSE [chunk |-> strip(chunk), start |-> finish - overlap]

InitChunk ==
    /\ InitScorer
    /\ history = {}
    /\ COMPANY_DATA = <<>>
    /\ PROCESSED_FILES = <<>>
    /\ InitRag
    /\ op = "chunk_text"
    /\ pc = "loop"
    /\ overall = <<>>
    /\ result = <<>>
    /\ frames = [start |-> 0, chunks |-> <<>>]
    /\ \E text \in Texts : \E chunk_size \in 1..MaxChunkSize :
       \E overlap \in 0..(chunk_size - 1) :
           metrics = [text |-> text, chunk_size |-> chunk_size, overlap |-> overlap]

\* while start < len(text): one iteration
Iterate ==
    /\ pc = "loop"
    /\ frames.start < Len(metrics.text)
    /\ Len(frames.chunks) < MaxChunks
    /\ \E next \in {Chunk(metrics.text, metrics.chunk_size, metrics.overlap, frames.start)} :
           frames' = [start |-> next.start, chunks |-> Append(frames.chunks, next.chunk)]
    /\ UNCHANGED <<weights, op, metrics, pc, overall, result,
                   history, COMPANY_DATA, PROCESSED_FILES, rag>>

\* the loop condition fails: return chunks
ReturnChunks ==
    /\ pc = "loop"
    /\ frames.start >= Len(metrics.text)
    /\ pc' = "return"
    /\ result' = frames.chunks
    /\ UNCHANGED <<weights, op, metrics, overall, frames,
                   history, COMPANY_DATA, PROCESSED_FILES, rag>>

NextChunk == Iterate \/ ReturnChunks

SpecChunk == InitChunk /\ [][NextChunk]_vars

----------------------------------------------------------------------------
(* Concurrent calls of calculate_overall_score on the one scorer of the    *)
(* app (gradio_app2.py:18), each by its own caller on its own record.  A   *)
(* call advances block by block; its accumulators `score` and `details`,   *)
(* the three category results and `overall` are locals, kept in its frame; *)
(* the only shared object it touches is self.weights, which it reads.      *)

MaxCallers == 2

Callers == 1..MaxCallers

Categories == <<"environmental", "social", "governance">>

\* the metrics of a category in the order in which its scorer reads them
CategoryOrder(c) ==
    CASE c = "environmental" ->
             <<"scope_1_emissions", "scope_2_emissions", "scope_3_emissions",
               "renewable_energy_percentage", "waste_recycled_percentage",
               "water_usage", "energy_efficiency">>
      [] c = "social" ->
             <<"women_in_workforce_percentage", "women_in_leadership_percentage",
               "board_diversity_percentage", "safety_incident_rate",
               "employee_training_hours">>
      [] c = "governance" ->
             <<"independent_directors_percentage", "esg_committee_exists", "board_size",
               "ethics_violations_reported", "climate_risk_disclosure">>

CategoryFallback(c) ==
    CASE c = "environmental" -> EnvFallback
      [] c = "social" -> SocFallback
      [] c = "governance" -> GovFallback

\* the frame of a call on entry
Entry(m) ==
    [pc |-> "run", metrics |-> m, category |-> 1, block |-> 0,
     score |-> 0, details |-> <<>>, scores |-> <<>>, overall |-> <<>>, ret |-> <<>>]

\* one step of a call: entering a category scorer, one of its blocks, its
\* return, or the weighted sum, rating and return of calculate_overall_score
Step(f, w) ==
    LET c == Categories[f.category]
        m == GetMapping(f.metrics, c)
        order == CategoryOrder(c)
        award == Criterion(order[f.block], m)
        done == Append(f.scores, ScoreResult(f.score, f.details, CategoryFallback(c)))
        sum == WeightedSum(f.scores[1], f.scores[2], f.scores[3], w)
        band == Rating(sum)
    IN  IF f.pc = "run" /\ f.block = 0
        THEN IF NotAMapping(m)
             THEN [f EXCEPT !.pc = "raise", !.ret = [error |-> "AttributeError"]]
             ELSE [f EXCEPT !.block = 1, !.score = 0, !.details = <<>>]
        ELSE IF f.pc = "run" /\ f.block <= Len(order)
        THEN [f EXCEPT !.score = @ + award.score,
                       !.details = @ \o award.details,
                       !.block = @ + 1]
        ELSE IF f.pc = "run"
        THEN [f EXCEPT !.scores = done,
                       !.block = 0,
                       !.category = IF f.category < 3 THEN @ + 1 ELSE @,
                       !.pc = IF f.category < 3 THEN "run" ELSE "sum"]
        ELSE [f EXCEPT !.pc = "return",
                       !.overall = sum,
                       !.ret = [overall_score |-> RoundFloat2(sum),
                                max_score |-> 10,
                                rating |-> band[1],
                                rating_emoji |-> band[2],
                                environmental |-> f.scores[1],
                                social |-> f.scores[2],
                                governance |-> f.scores[3],
                                breakdown |->
                                    [environmental |-> Breakdown(f.scores[1], w.environmental),
                                     social |-> Breakdown(f.scores[2], w.social),
                                     governance |-> Breakdown(f.scores[3], w.governance)]]]

\* accumulators kept on the scorer object, where the first caller's are what
\* every caller reads: rejected by ConcurrentCallsAreIndependent
SharedAccumulators(fs, t) ==
    [fs[t] EXCEPT !.score = fs[1].score, !.details = fs[1].details]

\* the variables a step of caller t works on: its own frame
Locals(fs, t) == fs[t]

InitConcurrent ==
    /\ InitScorer
    /\ history = {}
    /\ COMPANY_DATA = <<>>
    /\ PROCESSED_FILES = <<>>
    /\ InitRag
    /\ op = "calculate_overall_score"
    /\ metrics = <<>>
    /\ pc = "concurrent"
    /\ overall = <<>>
    /\ result = <<>>
    /\ \E ms \in [Callers -> {Extractions[i] : i \in 1..Len(Extractions)}] :
           frames = [t \in Callers |-> Entry(ms[t])]

\* caller t takes its next step
Advance(t) ==
    /\ frames[t].pc \in {"run", "sum"}
    /\ frames' = [frames EXCEPT ![t] = Step(Locals(frames, t), weights)]
    /\ UNCHANGED <<weights, op, metrics, pc, overall, result,
                   history, COMPANY_DATA, PROCESSED_FILES, rag>>

NextConcurrent == \E t \in Callers : Advance(t)

SpecConcurrent == InitConcurrent /\ [][NextConcurrent]_vars

----------------------------------------------------------------------------
(* calculate_overall_score called again on a record in which one absent    *)
(* metric has been supplied, everything else unchanged.                    *)

KeysOf(c) == {CategoryOrder(c)[i] : i \in 1..Len(CategoryOrder(c))}

\* the in-domain values of metric k
Supplies(k) ==
    CASE k \in {"scope_1_emissions", "scope_2_emissions", "scope_3_emissions",
                "water_usage", "energy_efficiency"} -> {Obj(0), Obj(3)}
      [] k \in {"renewable_energy_percentage", "waste_recycled_percentage"} ->
             Around({25, 50, 75}, MaxPercent)
      [] k = "women_in_workforce_percentage" -> Around({25, 35, 45}, MaxPercent)
      [] k \in {"women_in_leadership_percentage", "board_diversity_percentage"} ->
             Around({20, 30, 40}, MaxPercent)
      [] k = "safety_incident_rate" -> Around({10, 20, 30}, MaxSafetyRate)
      [] k = "employee_training_hours" -> Around({20, 40}, MaxTrainingHours)
      [] k = "independent_directors_percentage" -> Around({50, 75}, MaxPercent)
      [] k \in {"esg_committee_exists", "climate_risk_disclosure"} ->
             {Bool(FALSE), Bool(TRUE)}
      [] k = "board_size" -> Around({8, 13}, MaxBoardSize)
      [] k = "ethics_violations_reported" -> Around({5, 10}, MaxViolations)

\* the value of metric k that earns the most
Generous(k) ==
    CASE k \in {"scope_1_emissions", "scope_2_emissions", "scope_3_emissions",
                "water_usage", "energy_efficiency"} -> Obj(3)
      [] k \in Percentages -> Num(MaxPercent)
      [] k \in {"safety_incident_rate", "ethics_violations_reported"} -> Num(0)
      [] k = "employee_training_hours" -> Num(MaxTrainingHours)
      [] k \in {"esg_committee_exists", "climate_risk_disclosure"} -> Bool(TRUE)
      [] k = "board_size" -> Num(8)

\* a category with nothing reported (no key, or every key None) or with
\* everything reported at its best
StartMappings(c) ==
    {EmptyMapping, [k \in KeysOf(c) |-> None], [k \in KeysOf(c) |-> Generous(k)]}

InitSupply ==
    /\ InitScorer
    /\ InitContext
    /\ pc = "call"
    /\ overall = <<>>
    /\ result = <<>>
    /\ op = "calculate_overall_score"
    /\ \E e \in StartMappings("environmental"), s \in StartMappings("social"),
          g \in StartMappings("governance") :
           metrics = [environmental |-> e, social |-> s, governance |-> g]

\* the absent metric k of category c is replaced by the value v and the
\* record is scored again
SupplyMore ==
    /\ pc = "return" /\ op = "calculate_overall_score"
    /\ \E n \in 1..Len(Categories) :
           LET c == Categories[n]
               m == metrics[c]
           IN  /\ \A j \in 1..Len(Categories) :
                      j # n => metrics[Categories[j]] \in StartMappings(Categories[j])
               /\ \A j \in DOMAIN m : m[j] \in {None, Generous(j)}
               /\ \E k \in KeysOf(c) :
                      /\ Get(m, k) = None
                      /\ \E v \in Supplies(k) :
                             metrics' = [metrics EXCEPT ![c] = Put(m, k, v)]
    /\ \E frame \in {OverallFrame(metrics', weights)} :
           /\ overall' = frame.overall
           /\ result' = frame.ret
    /\ UNCHANGED <<weights, op, pc, context>>

NextSupply == CalculateOverallScore \/ SupplyMore

SpecSupply == InitSupply /\ [][NextSupply]_vars

----------------------------------------------------------------------------
(* Properties of the category scorers, checked under SpecCategory.         *)

\* a category scorer has returned
Returned == pc = "return" /\ op # "calculate_overall_score"

\* every award of score_governance at its maximum: 3 + 2 + 1 + 4 + 0.5
GovernanceMaximal ==
    /\ op = "score_governance"
    /\ Get(metrics, "independent_directors_percentage") # None
    /\ Get(metrics, "independent_directors_percentage").val >= 75
    /\ Get(metrics, "esg_committee_exists") = Bool(TRUE)
    /\ Get(metrics, "board_size") # None
    /\ Get(metrics, "board_size").val \in 8..12
    /\ Get(metrics, "ethics_violations_reported") = Num(0)
    /\ Get(metrics, "climate_risk_disclosure") = Bool(TRUE)

\* C1: whatever the mapping, a category scorer returns a score s with
\* 0 <= s <= 10 (in hundredths, 0 <= s <= 1000); a governance record that
\* fires every maximal award, 10.5 points in all, returns exactly 10.
ScoreWithinRange ==
    Returned =>
        /\ result.score \in 0..1000
        /\ GovernanceMaximal => result.score = 1000

\* score_governance has returned for a record with every maximal award
ScoreWithinRangeWitness ==
    Returned /\ GovernanceMaximal /\ result.score = 1000

\* every metric the called scorer reads is None or has no key
AllAbsent == \A k \in Recognized(op) : Get(metrics, k) = None

\* C2: when every recognized metric of the category is absent (None or no
\* key, the empty mapping included), the scorer returns score 0, percentage
\* 0 and details holding exactly the fallback line of the category.
AllAbsentGivesFallback ==
    (Returned /\ AllAbsent) =>
        /\ result.score = 0
        /\ result.percentage = 0
        /\ result.details = <<Fallback(op)>>

\* score_social has returned for a mapping whose metrics are None or missing,
\* with a None under safety_incident_rate
AllAbsentGivesFallbackWitness ==
    /\ Returned /\ AllAbsent
    /\ op = "score_social"
    /\ "safety_incident_rate" \in DOMAIN metrics
    /\ "employee_training_hours" \notin DOMAIN metrics
    /\ result.details = <<SocFallback>>

\* C3: an absent metric (None, or no key) adds no points and no rationale
\* line: its block awards nothing, and the result is the one for the mapping
\* without the key.  A key that no block reads does not change the result.
AbsentMetricIsSkipped ==
    Returned =>
        /\ \A k \in Recognized(op) :
               Get(metrics, k) = None => Criterion(k, metrics) = NoAward
        /\ \A k \in DOMAIN metrics :
               (metrics[k] = None \/ k \notin Recognized(op)) =>
                   Call(op, Without(metrics, k)) = result

\* a scorer has returned with points, for a mapping that holds a None and a
\* key that is not read
AbsentMetricIsSkippedWitness ==
    /\ Returned
    /\ result.score > 0
    /\ \E k \in DOMAIN metrics \cap Recognized(op) : metrics[k] = None
    /\ \E k \in DOMAIN metrics : k \notin Recognized(op)

\* the award tables, in thousandths of a point
Present(k) == Truthy(Get(metrics, k))
Reads(k) == Get(metrics, k) # None
ValueOf(k) == Get(metrics, k).val
Tiers4(k, t1, t2, t3, a1, a2, a3, a4) ==
    IF ~(Reads(k) /\ ValueOf(k) > 0) THEN 0
    ELSE IF ValueOf(k) >= t1 THEN a1
    ELSE IF ValueOf(k) >= t2 THEN a2
    ELSE IF ValueOf(k) >= t3 THEN a3
    ELSE a4
Capped(points) == IF points < 10000 THEN points ELSE 10000

SocialAwards ==
    (Returned /\ op = "score_social") =>
        result.score * 10 =
            Capped(Tiers4("women_in_workforce_percentage", 45, 35, 25, 2000, 1500, 1000, 500)
                   + Tiers4("women_in_leadership_percentage", 40, 30, 20, 3000, 2000, 1000, 500)
                   + Tiers4("board_diversity_percentage", 40, 30, 20, 2000, 1500, 1000, 500)
                   + Tiers4("employee_training_hours", 40, 20, 20, 1000, 700, 700, 400)
                   + (IF ~Reads("safety_incident_rate") THEN 0
                      ELSE IF ValueOf("safety_incident_rate") < 10 THEN 2000
                      ELSE IF ValueOf("safety_incident_rate") < 20 THEN 1500
                      ELSE IF ValueOf("safety_incident_rate") < 30 THEN 1000
                      ELSE 500))

\* a safety rate of 0 earned 2.0 next to a workforce percentage of 0 that
\* earned nothing
SocialAwardsWitness ==
    /\ Returned /\ op = "score_social"
    /\ Get(metrics, "safety_incident_rate") = Num(0)
    /\ Get(metrics, "women_in_workforce_percentage") = Num(0)
    /\ result.score = 200

\* C8: score_governance returns min(10, sum of independent awards):
\* independence present and > 0 gives 3.0/2.0/1.0 for >=75/>=50/else; the ESG
\* committee +2.0 when true, +0.5 when explicitly false, nothing when absent;
\* board size present and > 0 gives 1.0 for 8..12 and 0.5 otherwise; reported
\* ethics violations (0 included) give +2.0 plus 2.0/1.5/1.0/0.5 for
\* ==0/<5/<10/>=10; a truthy climate risk disclosure +0.5.  Board size 10,
\* committee true, violations 0 and independence absent give 7.0.
GovernanceAwards ==
    (Returned /\ op = "score_governance") =>
        /\ result.score * 10 =
               Capped(Tiers4("independent_directors_percentage", 75, 50, 50, 3000, 2000, 2000, 1000)
                      + (IF Get(metrics, "esg_committee_exists") = Bool(TRUE) THEN 2000
                         ELSE IF Get(metrics, "esg_committee_exists") = Bool(FALSE) THEN 500
                         ELSE 0)
                      + (IF ~(Reads("board_size") /\ ValueOf("board_size") > 0) THEN 0
                         ELSE IF ValueOf("board_size") \in 8..12 THEN 1000 ELSE 500)
                      + (IF ~Reads("ethics_violations_reported") THEN 0
                         ELSE 2000 + (IF ValueOf("ethics_violations_reported") = 0 THEN 2000
                                      ELSE IF ValueOf("ethics_violations_reported") < 5 THEN 1500
                                      ELSE IF ValueOf("ethics_violations_reported") < 10 THEN 1000
                                      ELSE 500))
                      + (IF Present("climate_risk_disclosure") THEN 500 ELSE 0))
        /\ ( /\ Get(metrics, "board_size") = Num(10)
             /\ Get(metrics, "esg_committee_exists") = Bool(TRUE)
             /\ Get(metrics, "ethics_violations_reported") = Num(0)
             /\ ~Reads("independent_directors_percentage")
             /\ ~Present("climate_risk_disclosure") )
           => result.score = 700

\* the example: board size 10, committee true, no violations, independence
\* and climate disclosure absent
GovernanceAwardsWitness ==
    /\ Returned /\ op = "score_governance"
    /\ Get(metrics, "board_size") = Num(10)
    /\ Get(metrics, "esg_committee_exists") = Bool(TRUE)
    /\ Get(metrics, "ethics_violations_reported") = Num(0)
    /\ ~Reads("independent_directors_percentage")
    /\ ~Reads("climate_risk_disclosure")
    /\ result.score = 700

\* every award of score_environmental at its maximum
EnvironmentalMaximal ==
    /\ op = "score_environmental"
    /\ Present("scope_1_emissions") /\ Present("scope_2_emissions")
    /\ Present("scope_3_emissions")
    /\ Reads("renewable_energy_percentage") /\ ValueOf("renewable_energy_percentage") >= 75
    /\ Reads("waste_recycled_percentage") /\ ValueOf("waste_recycled_percentage") >= 75
    /\ Present("water_usage") /\ Present("energy_efficiency")

LinesOf(k) ==
    IF k \in {"scope_1_emissions", "scope_2_emissions", "scope_3_emissions",
              "water_usage", "energy_efficiency", "climate_risk_disclosure"}
    THEN IF Present(k) THEN 1 ELSE 0
    ELSE IF k = "safety_incident_rate"
    THEN IF Reads(k) THEN 1 ELSE 0
    ELSE IF k = "ethics_violations_reported"
    THEN IF Reads(k) THEN 2 ELSE 0
    ELSE IF k = "esg_committee_exists"
    THEN IF Get(metrics, k) \in {Bool(TRUE), Bool(FALSE)} THEN 1 ELSE 0
    ELSE IF k = "waste_recycled_percentage"
    THEN IF Reads(k) /\ ValueOf(k) >= 25 THEN 1 ELSE 0
    ELSE IF Reads(k) /\ ValueOf(k) > 0 THEN 1 ELSE 0

RECURSIVE LinesUpTo(_, _)
LinesUpTo(order, n) ==
    IF n = 0 THEN 0 ELSE LinesUpTo(order, n - 1) + LinesOf(order[n])

\* the category that the scorer o scores
CategoryOf(o) ==
    CASE o = "score_environmental" -> "environmental"
      [] o = "score_social" -> "social"
      [] o = "score_governance" -> "governance"

\* C18: for every category scorer and every input, details is the single
\* fallback string if and only if the score is 0; otherwise details holds one
\* rationale line per award that fired (two for a reported
\* ethics_violations value), in the order in which the criteria are
\* evaluated, and never the fallback string; details is never empty.
DetailsFollowAwards ==
    Returned =>
        LET order == CategoryOrder(CategoryOf(op))
            starts == [n \in 0..Len(order) |-> LinesUpTo(order, n)]
        IN  /\ result.details # <<>>
            /\ (result.details = <<Fallback(op)>>) <=> (result.score = 0)
            /\ result.score # 0 =>
                   /\ Len(result.details) = starts[Len(order)]
                   /\ \A i \in 1..Len(result.details) : result.details[i] # Fallback(op)
                   /\ \A n \in 1..Len(order) :
                          SubSeq(result.details, starts[n - 1] + 1, starts[n])
                              = Criterion(order[n], metrics).details

\* governance with board size, committee and ethics reported: four lines, the
\* two ethics lines last
DetailsFollowAwardsWitness ==
    /\ Returned /\ op = "score_governance"
    /\ Get(metrics, "board_size") = Num(10)
    /\ Get(metrics, "esg_committee_exists") = Bool(FALSE)
    /\ Get(metrics, "ethics_violations_reported") = Num(0)
    /\ ~Reads("independent_directors_percentage")
    /\ ~Reads("climate_risk_disclosure")
    /\ Len(result.details) = 4
    /\ result.details[3] = <<"[+] Transparent ethics reporting">>
    /\ result.score = 550

----------------------------------------------------------------------------
(* Properties of calculate_overall_score, checked under SpecOverall.       *)

\* calculate_overall_score has returned
ReturnedOverall == pc = "return" /\ op = "calculate_overall_score"

\* C4: overall_score is env.score*0.40 + social.score*0.30 +
\* governance.score*0.30 rounded to two decimals, where the three category
\* results are those of the category scorers on the record's sub-mappings
\* and are returned unchanged.  The right-hand side is the exact decimal
\* value (scores and weights in hundredths); the left is the float result.
OverallIsWeightedSum ==
    ReturnedOverall =>
        /\ result.environmental = Call("score_environmental", GetMapping(metrics, "environmental"))
        /\ result.social = Call("score_social", GetMapping(metrics, "social"))
        /\ result.governance = Call("score_governance", GetMapping(metrics, "governance"))
        /\ result.overall_score =
               RoundHalfEven(result.environmental.score * 40
                             + result.social.score * 30
                             + result.governance.score * 30, 100)

\* category scores 5.0, 6.0 and 7.0 gave the overall score 5.9
OverallIsWeightedSumWitness ==
    /\ ReturnedOverall
    /\ result.environmental.score = 500
    /\ result.social.score = 600
    /\ result.governance.score = 700
    /\ result.overall_score = 590

\* the band boundaries 8, 6.5, 5 and 3 as exact numbers, in the units of
\* `overall` (whole part above FracLimbs limbs of fraction)
Whole(n) == Zeros(FracLimbs) \o <<n>>
AndAHalf(n) == Zeros(FracLimbs - 1) \o <<Base \div 2, n>>
AtLeast(t) == BigCompare(overall, t) >= 0
BandRank(r) ==
    CASE r = "Limited Data" -> 0
      [] r = "Needs Improvement" -> 1
      [] r = "Fair" -> 2
      [] r = "Good" -> 3
      [] r = "Excellent" -> 4

\* C5: the rating bands partition the overall values of [0, 10]: Excellent
\* is >= 8, Good >= 6.5 and < 8, Fair >= 5 and < 6.5, Needs Improvement >= 3
\* and < 5, Limited Data < 3; a value exactly on 8, 6.5, 5 or 3 is in the
\* higher band; and the rating never decreases as the overall value grows
\* (its rank is the number of boundaries the value has reached).
RatingFollowsBands ==
    ReturnedOverall =>
        /\ AtLeast(Whole(0)) /\ ~(BigCompare(overall, Whole(10)) > 0)
        /\ result.rating = "Excellent" <=> AtLeast(Whole(8))
        /\ result.rating = "Good" <=> (AtLeast(AndAHalf(6)) /\ ~AtLeast(Whole(8)))
        /\ result.rating = "Fair" <=> (AtLeast(Whole(5)) /\ ~AtLeast(AndAHalf(6)))
        /\ result.rating = "Needs Improvement" <=> (AtLeast(Whole(3)) /\ ~AtLeast(Whole(5)))
        /\ result.rating = "Limited Data" <=> ~AtLeast(Whole(3))
        /\ BandRank(result.rating) =
               Cardinality({t \in {Whole(3), Whole(5), AndAHalf(6), Whole(8)} : AtLeast(t)})

\* an overall value of exactly 6.5 was rated Good
RatingFollowsBandsWitness ==
    /\ ReturnedOverall
    /\ BigCompare(overall, AndAHalf(6)) = 0
    /\ result.rating = "Good"

\* the record is syntactically valid: each category key is missing or holds
\* a mapping
ValidRecord ==
    \A c \in {"environmental", "social", "governance"} :
        c \in DOMAIN metrics => metrics[c] # None

CategoryKeys == {"score", "max_score", "percentage", "details"}

\* C10: on a record whose category values are mappings, or whose category
\* keys are missing (the empty record included), calculate_overall_score
\* does not raise and returns a complete result: overall_score, rating, the
\* three category results and the breakdown; a missing category is scored
\* as if all of its metrics were absent.
TotalOnValidRecords ==
    (op = "calculate_overall_score" /\ pc # "call" /\ ValidRecord) =>
        /\ pc = "return"
        /\ DOMAIN result = {"overall_score", "max_score", "rating", "rating_emoji",
                            "environmental", "social", "governance", "breakdown"}
        /\ result.overall_score \in 0..1000
        /\ result.rating \in {"Excellent", "Good", "Fair", "Needs Improvement", "Limited Data"}
        /\ DOMAIN result.environmental = CategoryKeys
        /\ DOMAIN result.social = CategoryKeys
        /\ DOMAIN result.governance = CategoryKeys
        /\ DOMAIN result.breakdown = {"environmental", "social", "governance"}
        /\ "environmental" \notin DOMAIN metrics =>
               result.environmental =
                   [score |-> 0, max_score |-> 10, percentage |-> 0, details |-> <<EnvFallback>>]
        /\ "social" \notin DOMAIN metrics =>
               result.social =
                   [score |-> 0, max_score |-> 10, percentage |-> 0, details |-> <<SocFallback>>]
        /\ "governance" \notin DOMAIN metrics =>
               result.governance =
                   [score |-> 0, max_score |-> 10, percentage |-> 0, details |-> <<GovFallback>>]

\* a record holding only its social category was scored: 3.0 overall from a
\* social score of 10
TotalOnValidRecordsWitness ==
    /\ ReturnedOverall
    /\ DOMAIN metrics = {"social"}
    /\ result.social.score = 1000
    /\ result.environmental.details = <<EnvFallback>>
    /\ result.overall_score = 300

\* C12: calculate_overall_score rejects a structurally malformed record,
\* one with a category value that is present but no mapping, by failing with
\* an InvalidInputError and returning no score; missing or null leaf values
\* never end in that outcome.
MalformedRecordRejected ==
    (op = "calculate_overall_score" /\ pc # "call") =>
        /\ ~ValidRecord => (pc = "raise" /\ result = [error |-> "InvalidInputError"])
        /\ ValidRecord => (pc = "return" /\ "error" \notin DOMAIN result)

\* C14: the rating is the band of the returned two-decimal overall_score
\* (rounded first, then mapped): Excellent iff overall_score >= 8, Good iff
\* 6.5 <= overall_score < 8, Fair iff 5 <= overall_score < 6.5, Needs
\* Improvement iff 3 <= overall_score < 5, Limited Data iff overall_score
\* < 3; category scores 5.0, 6.0, 7.0 give 5.9 and Fair.
RatingIsBandOfScore ==
    ReturnedOverall =>
        /\ result.rating = "Excellent" <=> result.overall_score >= 800
        /\ result.rating = "Good" <=>
               (result.overall_score >= 650 /\ result.overall_score < 800)
        /\ result.rating = "Fair" <=>
               (result.overall_score >= 500 /\ result.overall_score < 650)
        /\ result.rating = "Needs Improvement" <=>
               (result.overall_score >= 300 /\ result.overall_score < 500)
        /\ result.rating = "Limited Data" <=> result.overall_score < 300
        /\ ( /\ result.environmental.score = 500
             /\ result.social.score = 600
             /\ result.governance.score = 700 )
           => (result.overall_score = 590 /\ result.rating = "Fair")

----------------------------------------------------------------------------
(* Properties of repeated calls, checked under SpecMonotone.               *)

\* the values at which a percentage enters a higher tier
TierThresholds(k) ==
    CASE k = "renewable_energy_percentage" -> {25, 50, 75}
      [] k = "waste_recycled_percentage" -> {25, 50, 75}
      [] k = "women_in_workforce_percentage" -> {25, 35, 45}
      [] k = "women_in_leadership_percentage" -> {20, 30, 40}
      [] k = "board_diversity_percentage" -> {20, 30, 40}
      [] k = "independent_directors_percentage" -> {50, 75}

\* C9: with every other metric fixed, the category score never decreases
\* when a percentage metric goes from v to v + 1, for v in 0 .. 99, and it
\* is strictly higher at a tier threshold than just below it unless the cap
\* of 10 is reached.
MonotoneInPercentages ==
    [][ScoreAgain =>
          /\ result'.score >= result.score
          /\ \A k \in Percentages \cap DOMAIN metrics :
                 ( /\ metrics'[k] # metrics[k]
                   /\ metrics'[k].val \in TierThresholds(k)
                   /\ result'.score < 1000 )
                 => result'.score > result.score]_vars

\* leadership reached its threshold 40, raised from 39 with the other social
\* metrics at their best, and the score is the full 10
MonotoneInPercentagesWitness ==
    /\ pc = "return" /\ op = "score_social"
    /\ Get(metrics, "women_in_leadership_percentage") = Num(40)
    /\ Get(metrics, "women_in_workforce_percentage") = Num(MaxPercent)
    /\ result.score = 1000

----------------------------------------------------------------------------
(* Properties of the dashboard app, checked under SpecApp.                 *)

\* C11: a failed extraction is surfaced before the scorer is reached: the
\* error indicator of extract_metrics is never passed to
\* calculate_overall_score, and no entry is stored for that report.
FailedExtractionIsSurfaced ==
    /\ \A c \in history : "error" \notin DOMAIN c.metrics
    /\ \A n \in DOMAIN COMPANY_DATA : "error" \notin DOMAIN COMPANY_DATA[n].metrics

\* the names of a list of uploads
NamesOf(files) == {files[i].name : i \in 1..Len(files)}

\* what extract_metrics returned for the last upload called n
LastExtracted(files, n) ==
    files[CHOOSE i \in 1..Len(files) :
              files[i].name = n /\ \A j \in (i + 1)..Len(files) : files[j].name # n].extracted

\* C20: after any sequence of process_pdfs calls, PROCESSED_FILES holds no
\* name twice and its names are the keys of COMPANY_DATA; a call leaves the
\* entries of the names it was not given unchanged, a call that returns has
\* replaced the entry of each name it was given by the one of its last
\* upload, and a call with no files changes neither structure.
ProcessedFilesMatchCompanyData ==
    /\ [](/\ \A i, j \in 1..Len(PROCESSED_FILES) :
                 PROCESSED_FILES[i] = PROCESSED_FILES[j] => i = j
          /\ {PROCESSED_FILES[i] : i \in 1..Len(PROCESSED_FILES)} = DOMAIN COMPANY_DATA)
    /\ [][/\ \A n \in DOMAIN COMPANY_DATA \ NamesOf(metrics') :
                 n \in DOMAIN COMPANY_DATA' /\ COMPANY_DATA'[n] = COMPANY_DATA[n]
          /\ DOMAIN COMPANY_DATA' \subseteq DOMAIN COMPANY_DATA \cup NamesOf(metrics')
          /\ SubSeq(PROCESSED_FILES', 1, Len(PROCESSED_FILES)) = PROCESSED_FILES
          /\ pc' = "return" =>
                 \A n \in NamesOf(metrics') :
                     /\ n \in DOMAIN COMPANY_DATA'
                     /\ COMPANY_DATA'[n].metrics = LastExtracted(metrics', n)
                     /\ COMPANY_DATA'[n].score =
                            ScoreFrame(LastExtracted(metrics', n), weights).ret
          /\ metrics' = <<>> =>
                 (COMPANY_DATA' = COMPANY_DATA /\ PROCESSED_FILES' = PROCESSED_FILES)]_vars

\* a.pdf, processed before b.pdf, was uploaded again alone and its entry
\* replaced; the entry of b.pdf is still the sample record's
ProcessedFilesMatchCompanyDataWitness ==
    /\ pc = "return"
    /\ PROCESSED_FILES = <<"a.pdf", "b.pdf">>
    /\ metrics = <<[name |-> "a.pdf", extracted |-> ErrorIndicator]>>
    /\ COMPANY_DATA["a.pdf"].metrics = ErrorIndicator
    /\ COMPANY_DATA["b.pdf"].metrics = SampleRecord

----------------------------------------------------------------------------
(* Properties of a scorer called repeatedly, checked under SpecCalls.      *)

WeightsAreFixed ==
    /\ weights = [environmental |-> 40, social |-> 30, governance |-> 30]
    /\ weights.environmental + weights.social + weights.governance = 100
    /\ BigCompare(FloatAdd(FloatAdd(FloatOf(weights.environmental, 100),
                                    FloatOf(weights.social, 100)),
                           FloatOf(weights.governance, 100)), Whole(1)) = 0

\* the weights after calls of all four methods, one of which raised
WeightsAreFixedWitness ==
    /\ pc = "raise"
    /\ \A o \in Methods : \E h \in history : h.op = o
    /\ weights.environmental = 40

----------------------------------------------------------------------------
(* Properties of concurrent calls, checked under SpecConcurrent.           *)

\* C17: for any interleaving of the steps of the calls of several callers on
\* the shared scorer, each call ends as it ends when run alone: it returns
\* the same result, or raises as it does alone; and the shared weights are
\* only read.
ConcurrentCallsAreIndependent ==
    /\ weights = InitialWeights
    /\ \A t \in Callers :
           LET alone == OverallFrame(frames[t].metrics, InitialWeights)
           IN  /\ frames[t].pc = "return" =>
                      (~alone.raised /\ frames[t].ret = alone.ret
                       /\ frames[t].overall = alone.overall)
               /\ frames[t].pc = "raise" => (alone.raised /\ frames[t].ret = alone.ret)

\* the second caller has returned 5.75 for the sample record while the first
\* is in the middle of the social blocks of the same record
ConcurrentCallsAreIndependentWitness ==
    /\ pc = "concurrent"
    /\ frames[2].pc = "return" /\ frames[2].metrics = SampleRecord
    /\ frames[2].ret.overall_score = 575
    /\ frames[1].pc = "run" /\ frames[1].metrics = SampleRecord
    /\ frames[1].category = 2 /\ frames[1].block = 3

----------------------------------------------------------------------------
(* Properties of supplying a metric, checked under SpecSupply.             *)

\* C19: replacing an absent metric by a present in-domain value, all other
\* metrics unchanged, lowers neither the score of its category (nor of any
\* other) nor the overall_score.
MoreDataNeverLowers ==
    [][(pc = "return" /\ pc' = "return") =>
           /\ \A n \in 1..Len(Categories) :
                  result'[Categories[n]].score >= result[Categories[n]].score
           /\ result'.overall_score >= result.overall_score]_vars

\* fifteen ethics violations were supplied to a governance record that had
\* everything else at its best: 6.5 became 9.0, and the overall score 2.7
MoreDataNeverLowersWitness ==
    /\ pc = "return" /\ op = "calculate_overall_score"
    /\ metrics.environmental = EmptyMapping /\ metrics.social = EmptyMapping
    /\ DOMAIN metrics.governance = KeysOf("governance")
    /\ metrics.governance.ethics_violations_reported = Num(MaxViolations)
    /\ result.governance.score = 900
    /\ result.overall_score = 270

----------------------------------------------------------------------------
(* Properties of the question-answering app, checked under SpecRag.        *)

\* C21: a non-empty processed-files list implies that the vector store is not
\* None (a name is in a list only after add_documents returned for it, and
\* the store is never reset to None), so an answer_question that gets past
\* its guards never receives the "No documents loaded" error dict from
\* query; while the store is None, query returns that error dict and
\* similarity_search the empty list, and neither touches the store.
StoreIsReadyWhenAsked ==
    /\ [](/\ \A s \in Sessions :
                 processed_files[s] # <<>> =>
                     /\ vectorstore # None
                     /\ \A i \in 1..Len(processed_files[s]) :
                            processed_files[s][i] \in vectorstore.val
          /\ (op = "answer_question" /\ frames # <<>>) => frames.result # NoDocuments
          /\ op = "answer_question" => result # [error |-> "KeyError"])
    /\ [][/\ vectorstore # None => vectorstore' # None
          /\ (vectorstore = None /\ op' = "query") =>
                 (result' = NoDocuments /\ pc' = "return" /\ vectorstore' = None)
          /\ (vectorstore = None /\ op' = "similarity_search") =>
                 (result' = <<>> /\ vectorstore' = None)]_vars

\* the first session got an answer drawn from the store while the second has
\* processed nothing
StoreIsReadyWhenAskedWitness ==
    /\ op = "answer_question" /\ pc = "return"
    /\ metrics[1] = "s1" /\ ~Blank(metrics[2])
    /\ processed_files["s1"] = <<"a.pdf">> /\ processed_files["s2"] = <<>>
    /\ frames # <<>> /\ frames.result.source_documents = {"a.pdf"}
    /\ result.sources = vectorstore.val

----------------------------------------------------------------------------
(* Properties of chunk_text, checked under SpecChunk.                      *)

\* an iteration of the loop has been made
Iterated == pc = "loop" /\ pc' = "loop" /\ Len(frames'.chunks) = Len(frames.chunks) + 1

\* C22: for every text, every chunk_size >= 1 and every overlap with
\* 0 <= overlap < chunk_size, the loop variable start strictly increases on
\* every iteration of chunk_text, also when the chunk is shortened to end at
\* the last period or newline past half of chunk_size, so that the loop ends.
StartStrictlyIncreases ==
    [][Iterated => frames'.start > frames.start]_vars

\* what does hold: start strictly increases on every iteration when overlap
\* is at most chunk_size \div 2 + 1, as with the defaults 1000 and 200
StartIncreasesForSmallOverlap ==
    [][(Iterated /\ metrics.overlap <= metrics.chunk_size \div 2 + 1)
           => frames'.start > frames.start]_vars

====
